---- MODULE Spec2Model ----
(***************************************************************************)
(* Model of the giveaway bot of src/bot.py: the entries.json store, the    *)
(* "Enter giveaway" button and its UID form, and the two administrator     *)
(* commands.  Strings are sequences of one-character strings so that       *)
(* str.strip, str.replace, str.join and the CSV layout are computed.       *)
(***************************************************************************)
EXTENDS Integers, Sequences, FiniteSets, TLC

\* ---------------------------------------------------------------- bounds
NumUsers == 2       \* platform users 1..NumUsers
MaxLen   == 1       \* longest text typed into the UID form
MaxPosts == 1       \* announcements posted by !start_giveaway

Users      == 1..NumUsers
Admins     == {1}                  \* users holding administrator permission
Chars      == {" ", "\""}         \* alphabet of the form's text input
Whitespace == {" "}                \* characters str.strip() removes
Texts      == UNION {[1..n -> Chars] : n \in 0..MaxLen}
Clock      == {0}                  \* readings of datetime.utcnow()

\* ------------------------------------------------------- string helpers
Digit(n) == CASE n = 0 -> "0" [] n = 1 -> "1" [] n = 2 -> "2" [] n = 3 -> "3"
              [] n = 4 -> "4" [] n = 5 -> "5" [] n = 6 -> "6" [] n = 7 -> "7"
              [] n = 8 -> "8" [] n = 9 -> "9"

RECURSIVE str(_)
\* str(int): decimal digits, most significant first
str(n) == IF n < 10 THEN <<Digit(n)>> ELSE str(n \div 10) \o <<Digit(n % 10)>>

\* str(interaction.user): the display string the platform holds for a user
user_tag(u) == IF u = 1 THEN <<"a", "\"", "b">> ELSE <<"u">> \o str(u)

\* datetime.utcnow().isoformat() of clock reading t
isoformat(t) == <<"T">> \o str(t)

RECURSIVE lstrip(_)
lstrip(s) == IF s # <<>> /\ Head(s) \in Whitespace THEN lstrip(Tail(s)) ELSE s

RECURSIVE rstrip(_)
rstrip(s) == IF s # <<>> /\ s[Len(s)] \in Whitespace
             THEN rstrip(SubSeq(s, 1, Len(s) - 1)) ELSE s

\* str.strip()
strip(s) == rstrip(lstrip(s))

\* what "the trimmed text" means, stated without the code's strip()
NoSurroundingWs(s) ==
    s = <<>> \/ (s[1] \notin Whitespace /\ s[Len(s)] \notin Whitespace)

\* r is s without its leading and trailing whitespace
IsTrimOf(r, s) ==
    /\ NoSurroundingWs(r)
    /\ \E a \in 0..Len(s) :
          /\ a + Len(r) <= Len(s)
          /\ \A i \in 1..Len(s) :
                IF i <= a \/ i > a + Len(r)
                THEN s[i] \in Whitespace
                ELSE s[i] = r[i - a]

TrimChoice(s) ==
    CHOOSE r \in {SubSeq(s, i, j) : i \in 1..Len(s) + 1, j \in 0..Len(s)} :
        IsTrimOf(r, s)

\* the trimmed form of every text the form can carry, tabulated
TrimTable == [s \in Texts |-> TrimChoice(s)]

TrimOf(s) == TrimTable[s]

RECURSIVE replace(_, _, _)
\* s.replace(old, new) for a one-character old
replace(s, old, new) ==
    IF s = <<>> THEN <<>>
    ELSE (IF Head(s) = old THEN new ELSE <<Head(s)>>) \o replace(Tail(s), old, new)

RECURSIVE join(_, _)
\* sep.join(parts)
join(sep, parts) ==
    IF parts = <<>> THEN <<>>
    ELSE IF Len(parts) = 1 THEN parts[1]
    ELSE parts[1] \o sep \o join(sep, Tail(parts))

\* ----------------------------------------------------------- JSON file
\* json.dump of a list of dicts: an array of objects, each object the
\* ordered list of its (key, value) members.
json_dump(entries) ==
    [i \in 1..Len(entries) |->
        << <<"discord_user_id", entries[i].discord_user_id>>,
           <<"discord_tag",     entries[i].discord_tag>>,
           <<"uid",             entries[i].uid>>,
           <<"timestamp",       entries[i].timestamp>> >>]

\* value of key k in a JSON object: the last member with that key wins
member(obj, k) ==
    LET idx == {j \in DOMAIN obj : obj[j][1] = k}
        last_j == CHOOSE j \in idx : \A m \in idx : m <= j
    IN  obj[last_j][2]

\* json.load: each object becomes a dict keyed by its member names
json_load(doc) ==
    [i \in 1..Len(doc) |->
        [k \in {doc[i][j][1] : j \in DOMAIN doc[i]} |-> member(doc[i], k)]]

\* ----------------------------------------------------------------- state
VARIABLES
    token,           \* DISCORD_TOKEN is set in the environment
    proc,            \* "down", "fatal" (RuntimeError at startup), "running"
    persistentView,  \* bot.add_view(EnterView()) has run in this lifetime
    posts,           \* announcements in the channel (kept by the platform)
    livePosts,       \* how many of them were posted in this lifetime
    modal,           \* per user: "none", "open" (UIDModal shown), "sending"
                     \* (on_submit suspended in its await of send_message)
    fileExists,      \* os.path.exists(ENTRIES_FILE)
    fileDoc,         \* JSON document in entries.json
    last,            \* the handler that ran last and what it replied
    hist,            \* record of the submissions made (kept under SpecSeq)
    fileValid,       \* json.load accepts what entries.json holds
    acked            \* (user, UID) pairs that were sent the success reply

vars == <<token, proc, persistentView, posts, livePosts, modal,
          fileExists, fileDoc, last, hist, fileValid, acked>>

NoText == <<>>

Event(op, user, text, msg, count, hasFile, csv) ==
    [op |-> op, user |-> user, text |-> text, msg |-> msg,
     count |-> count, hasFile |-> hasFile, csv |-> csv, created |-> FALSE]

Plain(op, user, msg) == Event(op, user, NoText, msg, 0, FALSE, NoText)

\* the entries the store holds now (an absent file holds none)
Stored == IF fileExists /\ fileValid THEN json_load(fileDoc) ELSE <<>>

Init ==
    /\ token \in BOOLEAN
    /\ proc = "down"
    /\ persistentView = FALSE
    /\ posts = 0
    /\ livePosts = 0
    /\ modal = [u \in Users |-> "none"]
    /\ fileExists \in BOOLEAN
    /\ fileDoc = json_dump(<<>>)
    /\ last = Plain("none", 0, "none")
    /\ hist = [pairs |-> {}, n |-> 0, acc |-> 0]
    /\ fileValid = TRUE
    /\ acked = {}

\* ------------------------------------------------------------- the store
\* load_entries(): document read after the create-if-absent side effect
load_doc == IF fileExists THEN fileDoc ELSE json_dump(<<>>)

\* variant: load_entries answers [] for an absent file without creating it
exists_after_load_as_before == fileExists

\* load_entries(): the file exists afterwards, created when it was absent
exists_after_load == TRUE

\* variant: whatever the file holds is taken for a list of entries
parses_anything == TRUE

\* json.load(f) at line 27 returns; it raises JSONDecodeError when the file
\* does not hold a JSON document
parses == fileValid

\* variant: the list a handler decides on is a snapshot taken before the
\* latest write of another handler
load_entries_stale == json_load(SubSeq(load_doc, 1, Len(load_doc) - 1))

load_entries == json_load(load_doc)

\* variant: the write is skipped, the file keeps what was loaded
save_entries_skipped(entries) == load_doc

\* save_entries(entries): the document the file holds afterwards
save_entries(entries) == json_dump(entries)

\* ------------------------------------------------------------- lifecycle
\* variant: the token check is missing
token_missing_ignored == FALSE

\* if not TOKEN
token_missing == ~token

\* module body: token check, then bot.run(TOKEN)
startup ==
    /\ proc \in {"down", "fatal"}
    /\ IF token_missing
       THEN /\ proc' = "fatal"
            /\ last' = Plain("startup", 0, "RuntimeError")
       ELSE /\ proc' = "running"
            /\ last' = Plain("startup", 0, "connected")
    /\ UNCHANGED <<token, persistentView, posts, livePosts, modal,
                   fileExists, fileDoc, hist, fileValid, acked>>

on_ready ==
    /\ proc = "running"
    /\ persistentView' = TRUE
    /\ last' = Plain("on_ready", 0, "ready")
    /\ UNCHANGED <<token, proc, posts, livePosts, modal, fileExists, fileDoc,
                   hist, fileValid, acked>>

\* the process is stopped; everything held in memory is gone
shutdown ==
    /\ proc = "running"
    /\ proc' = "down"
    /\ persistentView' = FALSE
    /\ livePosts' = 0
    /\ modal' = [u \in Users |-> "none"]
    /\ last' = Plain("shutdown", 0, "none")
    /\ UNCHANGED <<token, posts, fileExists, fileDoc, hist, fileValid, acked>>

\* ------------------------------------------------------------ UIDModal
UidUsed     == "This UID has already been used to enter the giveaway."
UserEntered == "You have already entered the giveaway."
Success     == "You have successfully entered the giveaway!"

\* The views this process dispatches button presses to: the EnterView given
\* to ctx.send in this lifetime, and, once on_ready has called add_view, the
\* persistent one that matches custom_id "giveaway_enter_button" on any message
view_registered(m) == persistentView \/ m > posts - livePosts

\* EnterView.enter_button: user u activates the button of announcement m.
\* A press that matches no registered view is dropped by the library: no
\* callback runs and the platform shows the user a failed interaction.
enter_button(u, m) ==
    /\ proc = "running"
    /\ m \in 1..posts
    /\ IF view_registered(m)
       THEN /\ modal' = [modal EXCEPT ![u] = "open"]
            /\ last' = Plain("enter_button", u, "send_modal")
       ELSE /\ UNCHANGED modal
            /\ last' = Plain("enter_button", u, "unhandled")
    /\ UNCHANGED <<token, proc, persistentView, posts, livePosts,
                   fileExists, fileDoc, hist, fileValid, acked>>

\* variant: the text is used as typed, strip() forgotten
uid_value_unstripped(text) == text

\* uid_value = self.uid.value.strip()
uid_value(text) == strip(text)

\* variant: the wrong key is compared, e["discord_user_id"] == uid_value
uid_taken_wrong_key(entries, uid) ==
    \E i \in DOMAIN entries : entries[i]["discord_user_id"] = uid

\* variant: an empty UID is turned away like a used one
uid_taken_or_empty(entries, uid) ==
    uid = <<>> \/ \E i \in DOMAIN entries : entries[i]["uid"] = uid

\* any(e["uid"] == uid_value for e in entries)
uid_taken(entries, uid) ==
    \E i \in DOMAIN entries : entries[i]["uid"] = uid

\* variant: the stored id is compared with str(interaction.user), the tag
user_taken_by_tag(entries, u) ==
    \E i \in DOMAIN entries : entries[i]["discord_user_id"] = user_tag(u)

\* any(e["discord_user_id"] == str(interaction.user.id) for e in entries)
user_taken(entries, u) ==
    \E i \in DOMAIN entries : entries[i]["discord_user_id"] = str(u)

\* variant: the two rejection messages are exchanged
outcome_messages_swapped(entries, u, uid) ==
    IF \E i \in DOMAIN entries : entries[i]["uid"] = uid THEN UserEntered
    ELSE IF \E i \in DOMAIN entries : entries[i]["discord_user_id"] = str(u)
         THEN UidUsed
    ELSE Success

\* variant: the second check is missing
outcome_user_check_skipped(entries, u, uid) ==
    IF \E i \in DOMAIN entries : entries[i]["uid"] = uid THEN UidUsed
    ELSE Success

\* variant: the user check runs before the UID check
outcome_user_first(entries, u, uid) ==
    IF \E i \in DOMAIN entries : entries[i]["discord_user_id"] = str(u)
    THEN UserEntered
    ELSE IF \E i \in DOMAIN entries : entries[i]["uid"] = uid THEN UidUsed
    ELSE Success

\* which reply on_submit sends: the two early returns, else the success
outcome(entries, u, uid) ==
    IF uid_taken(entries, uid) THEN UidUsed
    ELSE IF user_taken(entries, u) THEN UserEntered
    ELSE Success

new_entry(u, uid, t) ==
    [discord_user_id |-> str(u),
     discord_tag     |-> user_tag(u),
     uid             |-> uid,
     timestamp       |-> isoformat(t)]

\* variant: the new entry replaces the list instead of extending it
appended_alone(entries, entry) == <<entry>>

\* variant: the new entry is put in front of the list
appended_in_front(entries, entry) == <<entry>> \o entries

\* entries.append(entry)
appended(entries, entry) == Append(entries, entry)

\* UIDModal.on_submit up to its await: user u submits text, the clock reads t.
\* Nothing between load_entries() and the reply awaits, so this runs as one
\* step of the event loop.
on_submit(u, text, t) ==
    /\ proc = "running"
    /\ modal[u] = "open"
    /\ IF ~parses
       THEN \* load_entries() raises at line 54: the handler ends there, the
            \* library logs the exception and leaves the modal as it is
            /\ last' = Event("on_submit", u, text, "JSONDecodeError", 0,
                             FALSE, NoText)
            /\ UNCHANGED <<fileExists, fileDoc, fileValid, modal, acked>>
       ELSE LET uid     == uid_value(text)
                entries == load_entries
                msg     == outcome(entries, u, uid)
            IN  /\ fileDoc' = IF msg = Success
                              THEN save_entries(appended(entries,
                                                         new_entry(u, uid, t)))
                              ELSE load_doc
                /\ last' = [Event("on_submit", u, text, msg, 0, FALSE, NoText)
                               EXCEPT !.created = ~fileExists]
                /\ fileExists' = (msg = Success \/ exists_after_load)
                /\ fileValid' = TRUE
                /\ acked' = IF msg = Success
                            THEN acked \cup {<<u, TrimOf(text)>>}
                            ELSE acked
                /\ modal' = [modal EXCEPT ![u] = "sending"]
    /\ UNCHANGED <<token, proc, persistentView, posts, livePosts>>

\* a form submission as the platform delivers it to on_submit
form_submit(u, text, t) == on_submit(u, text, t) /\ UNCHANGED hist

\* on_submit resumes after await interaction.response.send_message(...) and
\* returns; the modal is finished
submit_done(u) ==
    /\ proc = "running"
    /\ modal[u] = "sending"
    /\ modal' = [modal EXCEPT ![u] = "none"]
    /\ last' = Plain("submit_done", u, "none")
    /\ UNCHANGED <<token, proc, persistentView, posts, livePosts,
                   fileExists, fileDoc, hist, fileValid, acked>>

\* ------------------------------------------------------------- commands
\* variant: the permission decorator is missing, every member passes
has_permissions_unchecked(u) == TRUE

\* @commands.has_permissions(administrator=True): the check that runs before
\* the command body; when it fails MissingPermissions is raised instead
has_permissions(u) == u \in Admins

\* !start_giveaway by user u
start_giveaway(u) ==
    /\ proc = "running"
    /\ IF has_permissions(u)
       THEN /\ posts < MaxPosts
            /\ posts' = posts + 1
            /\ livePosts' = livePosts + 1
            /\ last' = Plain("start_giveaway", u, "announcement")
       ELSE /\ UNCHANGED <<posts, livePosts>>
            /\ last' = Plain("start_giveaway", u, "MissingPermissions")
    /\ UNCHANGED <<token, proc, persistentView, modal, fileExists, fileDoc,
                   hist, fileValid, acked>>

header ==
    <<
       "d", "i", "s", "c", "o", "r", "d", "U", "s", "e",
       "r", "I", "d", ",", "d", "i", "s", "c", "o", "r",
       "d", "T", "a", "g", ",", "u", "i", "d", ",", "t",
       "i", "m", "e", "s", "t", "a", "m", "p",
       "\n">>

quoted(s) == <<"\"">> \o s \o <<"\"">>

\* one CSV row of export_entries
row(e) ==
    LET safe_uid == replace(e["uid"], "\"", <<"\"", "\"">>)
    IN  join(<<",">>, << quoted(e["discord_user_id"]),
                         quoted(e["discord_tag"]),
                         quoted(safe_uid),
                         quoted(e["timestamp"]) >>)

\* variant: the header lacks its newline, so the first row joins its line
csv_content_header_unterminated(entries) ==
    SubSeq(header, 1, Len(header) - 1)
        \o join(<<"\n">>, [i \in 1..Len(entries) |-> row(entries[i])])

csv_content(entries) ==
    header \o join(<<"\n">>, [i \in 1..Len(entries) |-> row(entries[i])])

\* !export_entries by user u
export_entries(u) ==
    /\ proc = "running"
    /\ IF ~has_permissions(u)
       THEN /\ last' = Plain("export_entries", u, "MissingPermissions")
            /\ UNCHANGED <<fileExists, fileDoc>>
       ELSE LET entries == load_entries
                reply   == IF entries = <<>>
                           THEN Plain("export_entries", u, "No entries found.")
                           ELSE Event("export_entries", u, NoText, "Exported",
                                      Len(entries), TRUE, csv_content(entries))
            IN  IF ~parses
                THEN \* load_entries() raises at line 144: no reply
                     /\ last' = Plain("export_entries", u, "JSONDecodeError")
                     /\ UNCHANGED <<fileExists, fileDoc>>
                ELSE /\ fileExists' = exists_after_load
                     /\ fileDoc' = load_doc
                     /\ last' = [reply EXCEPT !.created = ~fileExists]
    /\ UNCHANGED <<token, proc, persistentView, posts, livePosts, modal, hist,
                   fileValid, acked>>

\* ------------------------------------------------------------------ spec
Next ==
    \/ startup
    \/ on_ready
    \/ shutdown
    \/ \E u \in Users : start_giveaway(u)
    \/ \E u \in Users : export_entries(u)
    \/ \E u \in Users, m \in 1..MaxPosts : enter_button(u, m)
    \/ \E u \in Users, text \in Texts, t \in Clock : form_submit(u, text, t)
    \/ \E u \in Users : submit_done(u)

Spec == Init /\ [][Next]_vars

\* ------------------------------------------------- vocabulary of the claims
Uids(es) == {es[i]["uid"] : i \in DOMAIN es}

UserIds(es) == {es[i]["discord_user_id"] : i \in DOMAIN es}

\* Submissions with their record: which (user, UID) pairs were submitted, the
\* UID taken without its surrounding whitespace, how many submissions were
\* made and how many got the success reply.
MaxSubs == 2

on_submit_recorded(u, text, t) ==
    /\ hist.n < MaxSubs
    /\ on_submit(u, text, t)
    /\ hist' = [pairs |-> hist.pairs \cup {<<u, TrimOf(text)>>},
                n     |-> hist.n + 1,
                acc   |-> hist.acc + (IF last'.msg = Success THEN 1 ELSE 0)]

NextSeq ==
    \/ startup
    \/ on_ready
    \/ \E u \in Users : start_giveaway(u)
    \/ \E u \in Users, m \in 1..MaxPosts : enter_button(u, m)
    \/ \E u \in Users, text \in Texts, t \in Clock :
          on_submit_recorded(u, text, t)
    \/ \E u \in Users : submit_done(u)

SpecSeq == Init /\ [][NextSeq]_vars

\* ------------------------------------------------------- failing writes
\* on_submit of an accepted submission whose save_entries raises OSError.
\* open(ENTRIES_FILE, "w") either fails and leaves the file as it was, or
\* succeeds, which empties the file, and a later write, flush or close fails
\* (disk full, I/O error): the file then holds a proper prefix of the JSON
\* text, possibly nothing, which json.load does not accept.  What an
\* unreadable file holds is not modelled; fileDoc is reset for it.  The
\* exception ends the handler before the reply at line 82.
on_submit_save_fails(u, text, t, truncated) ==
    /\ proc = "running"
    /\ modal[u] = "open"
    /\ parses
    /\ outcome(load_entries, u, uid_value(text)) = Success
    /\ last' = [Event("on_submit", u, text, "OSError", 0, FALSE, NoText)
                   EXCEPT !.created = ~fileExists]
    /\ fileExists' = TRUE
    /\ IF truncated
       THEN fileValid' = FALSE /\ fileDoc' = json_dump(<<>>)
       ELSE fileValid' = TRUE /\ fileDoc' = load_doc
    /\ UNCHANGED <<token, proc, persistentView, posts, livePosts, modal,
                   hist, acked>>

NextFault ==
    \/ Next
    \/ \E u \in Users, text \in Texts, t \in Clock, truncated \in BOOLEAN :
          on_submit_save_fails(u, text, t, truncated)

SpecFault == Init /\ [][NextFault]_vars

TypeOK ==
    /\ token \in BOOLEAN
    /\ proc \in {"down", "fatal", "running"}
    /\ persistentView \in BOOLEAN
    /\ posts \in 0..MaxPosts
    /\ livePosts \in 0..posts
    /\ modal \in [Users -> {"none", "open", "sending"}]
    /\ fileExists \in BOOLEAN
    /\ fileValid \in BOOLEAN
    /\ acked \subseteq Users \X Texts

\* the step just taken is a form submission (every action sets last)
Submitted == last'.op = "on_submit"

StoreUnchanged ==
    fileExists' = fileExists /\ fileDoc' = fileDoc /\ fileValid' = fileValid

\* C1: in every reachable state no two entries of the persisted store have
\* the same uid.
C1_UniqueUid ==
    \A i, j \in DOMAIN Stored : i # j => Stored[i]["uid"] # Stored[j]["uid"]

\* two entries are stored and a further submission was turned away as a
\* duplicate UID
C1_Witness ==
    /\ Len(Stored) >= 2
    /\ last.op = "on_submit" /\ last.msg = UidUsed

\* C2: in every reachable state no two entries of the persisted store have
\* the same discord_user_id.
C2_UniqueUser ==
    \A i, j \in DOMAIN Stored :
        i # j => Stored[i]["discord_user_id"] # Stored[j]["discord_user_id"]

\* two entries are stored, the process has been restarted since, and a user
\* who is in the store submitted again and was turned away
C2_Witness ==
    /\ Len(Stored) >= 2
    /\ last.op = "on_submit" /\ last.msg # Success
    /\ str(last.user) \in UserIds(Stored)
    /\ livePosts = 0

\* C3: a submission whose trimmed UID equals the uid of a stored entry is
\* answered with the UID-already-used reply, whoever submits it, and leaves
\* the store as it was.
C3_UidReuseRejected ==
    [][(Submitted /\ TrimOf(last'.text) \in Uids(Stored))
         => (last'.msg = UidUsed /\ StoreUnchanged)]_vars

\* a user other than the owner of the entry reused its uid and was rejected
C3_Witness ==
    /\ last.op = "on_submit" /\ last.msg = UidUsed
    /\ \E i \in DOMAIN Stored :
          /\ Stored[i]["uid"] = TrimOf(last.text)
          /\ Stored[i]["discord_user_id"] # str(last.user)

\* C4: a submission by a user who already has an entry, with a UID that
\* matches no stored uid, is answered with the user-already-entered reply and
\* leaves the store as it was.
C4_UserReentryRejected ==
    [][(/\ Submitted
        /\ str(last'.user) \in UserIds(Stored)
        /\ TrimOf(last'.text) \notin Uids(Stored))
         => (last'.msg = UserEntered /\ StoreUnchanged)]_vars

\* a stored user came back with a UID nobody has used and was rejected
C4_Witness ==
    /\ last.op = "on_submit" /\ last.msg = UserEntered
    /\ str(last.user) \in UserIds(Stored)
    /\ TrimOf(last.text) \notin Uids(Stored)

\* C5: when a submission matches both a stored uid and a stored
\* discord_user_id, in one entry or in two, the reply is UID-already-used and
\* never user-already-entered.
C5_UidCheckFirst ==
    [][(/\ Submitted
        /\ TrimOf(last'.text) \in Uids(Stored)
        /\ str(last'.user) \in UserIds(Stored))
         => last'.msg = UidUsed]_vars

\* the submitter has an entry of their own and reused the uid of somebody
\* else's entry
C5_Witness ==
    /\ last.op = "on_submit" /\ last.msg = UidUsed
    /\ \E i, j \in DOMAIN Stored :
          /\ i # j
          /\ Stored[i]["uid"] = TrimOf(last.text)
          /\ Stored[j]["discord_user_id"] = str(last.user)

\* C6 as stated: whenever the (user, UID) pairs submitted so far are all
\* different, every submission was accepted and the store holds as many
\* entries as there were submissions.
C6_DistinctPairsAccepted ==
    Cardinality(hist.pairs) = hist.n
        => (hist.acc = hist.n /\ Len(Stored) = hist.n)

\* no two submissions so far came from one user or carried one trimmed UID
AllDistinct ==
    /\ Cardinality({p[1] : p \in hist.pairs}) = hist.n
    /\ Cardinality({p[2] : p \in hist.pairs}) = hist.n

\* C6 amended: whenever the submissions made so far, starting from an empty
\* store, come from pairwise different users and carry pairwise different
\* trimmed UIDs, every one of them was accepted and the store holds as many
\* entries as there were submissions.
C6_DistinctUsersAndUidsAccepted ==
    AllDistinct => (hist.acc = hist.n /\ Len(Stored) = hist.n)

\* every user has submitted, each a UID of their own
C6_Witness ==
    /\ hist.n >= 2
    /\ AllDistinct
    /\ Len(Stored) = hist.n

AllWhitespace(s) == \A i \in DOMAIN s : s[i] \in Whitespace

EmptyUidEntries == {i \in DOMAIN Stored : Stored[i]["uid"] = <<>>}

\* C8: a submission that is empty after trimming is accepted and stored with
\* uid "" when no stored uid is "" and the user has no entry; once an entry
\* with uid "" is stored every empty submission is rejected as
\* UID-already-used; the store never holds two entries with uid "".
C8_EmptyUid ==
    /\ [](Cardinality(EmptyUidEntries) <= 1)
    /\ [][(Submitted /\ AllWhitespace(last'.text)) =>
            /\ EmptyUidEntries # {} => last'.msg = UidUsed
            /\ (EmptyUidEntries = {} /\ str(last'.user) \notin UserIds(Stored))
                  => /\ last'.msg = Success
                     /\ Len(Stored') = Len(Stored) + 1
                     /\ Stored'[Len(Stored')]["uid"] = <<>>
                     /\ \A i \in DOMAIN Stored : Stored'[i] = Stored[i]]_vars

\* the empty uid is stored once and a second user's empty submission was
\* rejected
C8_Witness ==
    /\ last.op = "on_submit" /\ last.msg = UidUsed
    /\ AllWhitespace(last.text)
    /\ \E i \in EmptyUidEntries : Stored[i]["discord_user_id"] # str(last.user)

RECURSIVE SplitLines(_)
\* the lines of a text, separated by newline characters
SplitLines(s) ==
    IF \A i \in DOMAIN s : s[i] # "\n" THEN <<s>>
    ELSE LET k == CHOOSE i \in DOMAIN s :
                     s[i] = "\n" /\ \A j \in 1..(i - 1) : s[j] # "\n"
         IN  <<SubSeq(s, 1, k - 1)>> \o SplitLines(SubSeq(s, k + 1, Len(s)))

StartsWith(s, prefix) ==
    Len(prefix) <= Len(s) /\ SubSeq(s, 1, Len(prefix)) = prefix

\* C9: an administrator's export of an empty store replies with the warning
\* and no file; of a store with N >= 1 entries it replies with a file of
\* exactly N+1 lines, the header and then one row per entry in store order,
\* and reports the count N.
C9_Export ==
    [][(last'.op = "export_entries" /\ last'.user \in Admins) =>
         IF Stored = <<>>
         THEN /\ last'.msg = "No entries found."
              /\ ~last'.hasFile
         ELSE LET lines == SplitLines(last'.csv)
              IN  /\ last'.hasFile
                  /\ last'.count = Len(Stored)
                  /\ Len(lines) = Len(Stored) + 1
                  /\ lines[1] = SubSeq(header, 1, Len(header) - 1)
                  /\ \A i \in DOMAIN Stored :
                        StartsWith(lines[i + 1],
                                   quoted(Stored[i]["discord_user_id"]) \o <<",">>)
      ]_vars

\* an export of two or more entries was delivered
C9_Witness ==
    /\ last.op = "export_entries"
    /\ last.hasFile
    /\ last.count >= 2
    /\ Len(SplitLines(last.csv)) = last.count + 1

RECURSIVE CsvFields(_, _, _, _)
\* the fields of one CSV line: a quote opens and closes a quoted section,
\* two quotes inside a quoted section stand for one, a comma outside a
\* quoted section ends the field
CsvFields(s, inQuotes, cur, acc) ==
    IF s = <<>> THEN Append(acc, cur)
    ELSE IF inQuotes
    THEN IF Head(s) # "\""
         THEN CsvFields(Tail(s), TRUE, Append(cur, Head(s)), acc)
         ELSE IF Len(s) >= 2 /\ s[2] = "\""
         THEN CsvFields(Tail(Tail(s)), TRUE, Append(cur, "\""), acc)
         ELSE CsvFields(Tail(s), FALSE, cur, acc)
    ELSE IF Head(s) = "\"" THEN CsvFields(Tail(s), TRUE, cur, acc)
    ELSE IF Head(s) = "," THEN CsvFields(Tail(s), FALSE, <<>>, Append(acc, cur))
    ELSE CsvFields(Tail(s), FALSE, Append(cur, Head(s)), acc)

\* C10: every exported row encloses each of its four fields in double quotes
\* and doubles the double quotes inside them, so that the row parses back to
\* the four values of the stored entry.
C10_RowsParseBack ==
    (last.op = "export_entries" /\ last.hasFile) =>
        \A i \in DOMAIN Stored :
            LET line == SplitLines(last.csv)[i + 1]
            IN  /\ Head(line) = "\"" /\ line[Len(line)] = "\""
                /\ CsvFields(line, FALSE, <<>>, <<>>)
                     = << Stored[i]["discord_user_id"], Stored[i]["discord_tag"],
                          Stored[i]["uid"], Stored[i]["timestamp"] >>

\* C11: a user without administrator permission who invokes start_giveaway or
\* export_entries gets the permission failure: no announcement is posted, no
\* CSV is produced, and the store, the existence of its file included, is the
\* same after as before.
C11_NonAdminDenied ==
    [][(last'.op \in {"start_giveaway", "export_entries"}
           /\ last'.user \notin Admins)
        => /\ last'.msg = "MissingPermissions"
           /\ posts' = posts
           /\ ~last'.hasFile /\ last'.csv = NoText
           /\ StoreUnchanged]_vars

\* a non-administrator was denied the export of a store that holds entries
\* and whose file an export would otherwise have read
C11_Witness ==
    /\ last.op = "export_entries"
    /\ last.user \notin Admins
    /\ last.msg = "MissingPermissions"
    /\ Len(Stored) >= 1

\* C12: after a restart, activating a button that was posted in an earlier
\* lifetime of the process (here: while every announcement is of an earlier
\* lifetime) still opens the UID form, and a submission made after the
\* restart is rejected when its trimmed UID or its user id matches an entry
\* persisted before.
C12_AffordanceSurvivesRestart ==
    [][/\ (last'.op = "enter_button" /\ livePosts = 0)
            => modal'[last'.user] = "open"
       /\ (Submitted /\ (\/ TrimOf(last'.text) \in Uids(Stored)
                          \/ str(last'.user) \in UserIds(Stored)))
            => (last'.msg # Success /\ StoreUnchanged)]_vars

\* C18: at every startup the button handler is registered before the
\* connection is marked ready: on_ready, which the library calls once the
\* connection is ready, never starts in a state where the handler is not
\* registered.
C18_RegisteredBeforeReady ==
    [][last'.op = "on_ready" => persistentView]_vars

\* C14: with the token absent every startup fails fatally before connecting:
\* the process never runs connected, no command, button press or form
\* submission is ever handled, and the store is never touched.
C14_NoTokenNoRun ==
    /\ [](~token => /\ proc # "running"
                    /\ ~persistentView
                    /\ last.op \in {"none", "startup"}
                    /\ last.msg \in {"none", "RuntimeError"})
    /\ [][~token => StoreUnchanged]_vars

\* a startup without the token ended in the RuntimeError
C14_Witness ==
    ~token /\ proc = "fatal" /\ last.op = "startup" /\ last.msg = "RuntimeError"

\* the store holds two entries with one uid or one discord_user_id
DuplicateStored ==
    \E i, j \in DOMAIN Stored :
        /\ i # j
        /\ \/ Stored[i]["uid"] = Stored[j]["uid"]
           \/ Stored[i]["discord_user_id"] = Stored[j]["discord_user_id"]

\* the store holds an entry of user p[1] with UID p[2]
Holds(es, p) ==
    \E i \in DOMAIN es :
        es[i]["discord_user_id"] = str(p[1]) /\ es[i]["uid"] = p[2]

\* the entry of some submitter who was sent the success reply is not stored
AckedEntryLost == \E p \in acked : ~Holds(Stored, p)

\* another user's handler is still in flight, suspended in its reply, after
\* that user was accepted with the UID of the submission just handled
OverlapsAcceptedSameUid ==
    /\ last.op = "on_submit"
    /\ \E v \in Users \ {last.user} :
          modal[v] = "sending" /\ <<v, TrimOf(last.text)>> \in acked

C16_AbsentFileIsEmptyStore ==
    [][~fileExists
       => /\ (last'.op = "export_entries" /\ last'.user \in Admins)
               => /\ last'.msg = "No entries found." /\ ~last'.hasFile
                  /\ fileExists' /\ fileValid' /\ Len(fileDoc') = 0
          /\ Submitted
               => /\ last'.msg = Success
                  /\ fileExists' /\ fileValid' /\ Len(Stored') = 1
                  /\ Stored'[1]["discord_user_id"] = str(last'.user)]_vars

\* the export that found no file was answered with the warning and left an
\* empty file behind
C16_Witness ==
    /\ last.op = "export_entries" /\ last.created
    /\ last.msg = "No entries found."
    /\ fileExists /\ Stored = <<>>

\* the first submission of a fresh deployment found no file and was accepted
C16_WitnessSubmission ==
    /\ last.op = "on_submit" /\ last.created
    /\ last.msg = Success /\ Len(Stored) = 1

Replies == {UidUsed, UserEntered, Success, "No entries found.", "Exported"}

\* C17: when entries.json exists but does not parse, a submission or an
\* administrator's export that reads it ends that handler only: the user is
\* sent no message of any kind, the file and the record of acknowledgements
\* are as before, and the process goes on running.
C17_UnreadableEndsHandlerOnly ==
    [][(/\ fileExists /\ ~fileValid
        /\ \/ last'.op = "on_submit"
           \/ last'.op = "export_entries" /\ last'.user \in Admins)
       => /\ last'.msg \notin Replies
          /\ ~last'.hasFile
          /\ StoreUnchanged
          /\ acked' = acked
          /\ proc' = "running"]_vars

\* a submission was made against an unreadable file that had held an
\* acknowledged entry; the process is still running
C17_Witness ==
    /\ last.op = "on_submit" /\ last.msg = "JSONDecodeError"
    /\ fileExists /\ ~fileValid
    /\ acked # {}
    /\ proc = "running"

\* C20: when save fails with an I/O error while an accepted submission is
\* persisted, the store afterwards holds exactly the entries it held before:
\* a failed write drops or corrupts no stored entry.
C20_FailedSaveKeepsStore ==
    [][(last'.op = "on_submit" /\ last'.msg = "OSError") => Stored' = Stored]_vars

====
